---- MODULE Spec2Model ----
(***************************************************************************)
(* Progressive deployment orchestrator of the Pose Coach CI/CD pipeline    *)
(* (scripts/ci/progressive-deployment.py), as a state machine.             *)
(*                                                                         *)
(* One run of main(): execute_deployment dispatches on the strategy, the   *)
(* strategy function appends one DeploymentResult per executed stage, the  *)
(* report is generated and the process exits.  execute_deployment may also *)
(* be called a second time on the same manager with the same inputs.       *)
(*                                                                         *)
(* Conventions                                                             *)
(*  - metric values and thresholds are fixed-point numbers in tenths       *)
(*    (1.0 is 10, 4.5 is 45, 500.0 is 5000);                               *)
(*  - time is in seconds; the clock `now` advances by the sleeps the code  *)
(*    performs;                                                            *)
(*  - a Python dict is a record with a field `keys` holding the keys that  *)
(*    are present (dict.get(k, d) is Get);                                 *)
(*  - the collaborators (rollout update, verification, track deployment,   *)
(*    promotion, metric query) are the environment: each call's outcome is *)
(*    chosen nondeterministically.                                         *)
(***************************************************************************)
EXTENDS Integers, Sequences, FiniteSets, TLC

VARIABLES
    strategy,   \* DeploymentStrategy value of the run
    config,     \* the configuration document
    pc,         \* position of the run in main / the strategy function
    results,    \* the `results` list of the strategy function
    stage_i,    \* loop index i of _execute_gradual_deployment (0-based)
    mon,        \* locals of the running _monitor_deployment call
    now,        \* time.time()
    calls,      \* history: collaborator calls that change the rollout
    raised,     \* history: exceptions raised by collaborator calls
    polls,      \* history: the metrics of every pass of health checks
    probe,      \* arguments and result of a direct call of a pure function
    first,      \* history: what the first of two execute_deployment calls gave
    report,     \* the report of generate_deployment_report
    exit_code   \* the process exit status

vars == <<strategy, config, pc, results, stage_i, mon, now, calls, raised,
          polls, probe, first, report, exit_code>>

----------------------------------------------------------------------------
(* Bounds of the explored input space *)

\* largest distance, in tenths, of a reading from the threshold of its check
MaxDelta == 10

\* longest configured "stages" list of a Gradual run
MaxStages == 2
\* longest configured "health_checks" list
MaxChecks == 2
\* longest list of unhealthy metrics given to the rollback-trigger policy
MaxUnhealthy == 3

----------------------------------------------------------------------------
(* Program constants *)

DefaultCanaryPercentage == 5
DefaultMonitoringDuration == 1800
DefaultPropagationTime == 300
DefaultCheckInterval == 300
FullPercentage == 100
SecondsPerHour == 3600

CrashRateThreshold == 10
ErrorRateThreshold == 20
ResponseTimeThreshold == 5000
UserSatisfactionThreshold == 40
MemoryUsageThreshold == 5120
CpuUsageThreshold == 700
UserSatisfactionFallback == 45
QueryFailureDefault == 0

DefaultRollbackThreshold == 50
DefaultMaxUnhealthyMetrics == 3

UpdateLatency == 2
InternalTrackLatency == 5
PromoteLatency == 3
VerifyLatency == 1
BlueRollbackLatency == 2

Version == "2.0.0"
PreviousVersion == "1.0.0"

NoError == "<None>"

SUCCESS == "success"
FAILED == "failed"
PENDING == "pending"
IN_PROGRESS == "in_progress"
ROLLED_BACK == "rolled_back"
DeploymentStatus == {PENDING, IN_PROGRESS, SUCCESS, FAILED, ROLLED_BACK}

CANARY == "canary"
BLUE_GREEN == "blue_green"
GRADUAL == "gradual"
IMMEDIATE == "immediate"
DeploymentStrategy == {CANARY, BLUE_GREEN, GRADUAL, IMMEDIATE}

\* a strategy argument that is none of the four members
UnsupportedStrategy == "rolling"

\* exit statuses of the process
ExitFailure == 1
ExitSuccess == 0

----------------------------------------------------------------------------
(* Generic helpers *)

\* dict.get(key, default)
Get(d, key, default) == IF key \in d.keys THEN d[key] ELSE default

Last(s) == s[Len(s)]

RECURSIVE SumDurations(_)
SumDurations(rs) ==
    IF rs = <<>> THEN 0
    ELSE rs[1].duration_seconds + SumDurations(Tail(rs))

\* [m for m in ms if not m.is_healthy]
RECURSIVE Unhealthy(_)
Unhealthy(ms) ==
    IF ms = <<>> THEN <<>>
    ELSE IF ~ms[1].is_healthy THEN <<ms[1]>> \o Unhealthy(Tail(ms))
    ELSE Unhealthy(Tail(ms))

----------------------------------------------------------------------------
(* Data classes *)

HealthMetric(name, current_value, threshold, comparison, is_healthy, src) ==
    [name |-> name, current_value |-> current_value, threshold |-> threshold,
     comparison |-> comparison, is_healthy |-> is_healthy,
     \* history field: how the reading was obtained
     \* ("value", "failed", "raised", "unknown")
     src |-> src]

DeploymentResult(stage, status, metrics, duration_seconds, error_message) ==
    [stage |-> stage, status |-> status, metrics |-> metrics,
     duration_seconds |-> duration_seconds, error_message |-> error_message]

----------------------------------------------------------------------------
(* Metric query and the health checks *)

KnownChecks ==
    <<"crash_rate", "error_rate", "response_time", "user_satisfaction",
      "memory_usage", "cpu_usage">>

UnknownCheck == "gpu_usage"

\* default of config.get("health_checks", ...) in _monitor_deployment
MonitorDefaultChecks ==
    <<"crash_rate", "error_rate", "response_time", "user_satisfaction">>

\* default of config.get("health_checks", []) in _health_check_green_environment
GreenDefaultChecks == <<>>

\* An outcome of one _query_metric call:
\*   "value"  the time series average v is returned
\*   "failed" the query failed inside _query_metric, which returns 0.0
\*   "raise"  the call itself raises (a replaced collaborator)
\*   "none"   no query is made (unknown check name)
Value(v) == [kind |-> "value", v |-> v]
QueryFailed == [kind |-> "failed", v |-> 0]
QueryRaises == [kind |-> "raise", v |-> 0]
NoQuery == [kind |-> "none", v |-> 0]

\* The readings the monitoring backend may give for each metric
QueryOutcomes(name) ==
    CASE name = "crash_rate" -> {QueryRaises, QueryFailed, Value(5), Value(60)}
      [] name = "error_rate" -> {QueryFailed, Value(60)}
      [] name = "response_time" -> {QueryFailed, Value(6000)}
      [] name = "user_satisfaction" -> {QueryRaises, QueryFailed, Value(45)}
      [] name = "memory_usage" -> {QueryFailed, Value(6000)}
      [] name = "cpu_usage" -> {QueryFailed, Value(800)}
      [] OTHER -> {NoQuery}

\* The outcomes of the queries of one pass over the list health_checks
RECURSIVE PollOutcomes(_)
PollOutcomes(health_checks) ==
    IF health_checks = <<>> THEN {<<>>}
    ELSE {<<q>> \o rest : q \in QueryOutcomes(Head(health_checks)),
                          rest \in PollOutcomes(Tail(health_checks))}

\* _query_metric: the average, or 0.0 when the query fails
query_metric(q) == IF q.kind = "value" THEN q.v ELSE QueryFailureDefault

check_crash_rate(q) ==
    IF q.kind = "raise"
    THEN HealthMetric("crash_rate", 0, CrashRateThreshold, "less_than", TRUE,
                      "raised")
    ELSE LET crash_rate == query_metric(q)
             threshold == CrashRateThreshold
             is_healthy == crash_rate < threshold
         IN  HealthMetric("crash_rate", crash_rate, threshold, "less_than",
                          is_healthy, q.kind)

check_error_rate(q) ==
    IF q.kind = "raise"
    THEN HealthMetric("error_rate", 0, ErrorRateThreshold, "less_than", TRUE,
                      "raised")
    ELSE LET error_rate == query_metric(q)
             threshold == ErrorRateThreshold
             is_healthy == error_rate < threshold
         IN  HealthMetric("error_rate", error_rate, threshold, "less_than",
                          is_healthy, q.kind)

check_response_time(q) ==
    IF q.kind = "raise"
    THEN HealthMetric("response_time", 0, ResponseTimeThreshold, "less_than",
                      TRUE, "raised")
    ELSE LET response_time == query_metric(q)
             threshold == ResponseTimeThreshold
             is_healthy == response_time < threshold
         IN  HealthMetric("response_time", response_time, threshold,
                          "less_than", is_healthy, q.kind)

check_user_satisfaction(q) ==
    IF q.kind = "raise"
    THEN HealthMetric("user_satisfaction", UserSatisfactionFallback,
                      UserSatisfactionThreshold, "greater_than", TRUE, "raised")
    ELSE LET satisfaction_score == query_metric(q)
             threshold == UserSatisfactionThreshold
             is_healthy == satisfaction_score >= threshold
         IN  HealthMetric("user_satisfaction", satisfaction_score, threshold,
                          "greater_than", is_healthy, q.kind)

check_memory_usage(q) ==
    IF q.kind = "raise"
    THEN HealthMetric("memory_usage", 0, MemoryUsageThreshold, "less_than",
                      TRUE, "raised")
    ELSE LET memory_usage == query_metric(q)
             threshold == MemoryUsageThreshold
             is_healthy == memory_usage < threshold
         IN  HealthMetric("memory_usage", memory_usage, threshold, "less_than",
                          is_healthy, q.kind)

check_cpu_usage(q) ==
    IF q.kind = "raise"
    THEN HealthMetric("cpu_usage", 0, CpuUsageThreshold, "less_than", TRUE,
                      "raised")
    ELSE LET cpu_usage == query_metric(q)
             threshold == CpuUsageThreshold
             is_healthy == cpu_usage < threshold
         IN  HealthMetric("cpu_usage", cpu_usage, threshold, "less_than",
                          is_healthy, q.kind)

\* faulty variant: an unknown name gives an unhealthy metric
run_health_check_UnknownUnhealthy(check_name, q) ==
    IF check_name \in {KnownChecks[i] : i \in DOMAIN KnownChecks}
    THEN CASE check_name = "crash_rate" -> check_crash_rate(q)
           [] check_name = "error_rate" -> check_error_rate(q)
           [] check_name = "response_time" -> check_response_time(q)
           [] check_name = "user_satisfaction" -> check_user_satisfaction(q)
           [] check_name = "memory_usage" -> check_memory_usage(q)
           [] check_name = "cpu_usage" -> check_cpu_usage(q)
    ELSE HealthMetric(check_name, 0, 0, "less_than", FALSE, "unknown")

run_health_check(check_name, q) ==
    IF check_name = "crash_rate" THEN check_crash_rate(q)
    ELSE IF check_name = "error_rate" THEN check_error_rate(q)
    ELSE IF check_name = "response_time" THEN check_response_time(q)
    ELSE IF check_name = "user_satisfaction" THEN check_user_satisfaction(q)
    ELSE IF check_name = "memory_usage" THEN check_memory_usage(q)
    ELSE IF check_name = "cpu_usage" THEN check_cpu_usage(q)
    ELSE HealthMetric(check_name, 0, 0, "less_than", TRUE, "unknown")

\* for check in health_checks: metrics.append(self._run_health_check(check))
RunHealthChecks(health_checks, qs) ==
    [i \in 1..Len(health_checks) |-> run_health_check(health_checks[i], qs[i])]

----------------------------------------------------------------------------
(* Rollback-trigger policy *)

\* faulty variant: response_time is treated as a critical metric too
CriticalMetrics_WithResponseTime == {"crash_rate", "error_rate", "response_time"}

CriticalMetrics == {"crash_rate", "error_rate"}

\* faulty variant: a critical metric equal to its rollback threshold also counts
RECURSIVE CriticalExceeded_OrEqual(_, _)
CriticalExceeded_OrEqual(unhealthy_metrics, rollback_config) ==
    IF unhealthy_metrics = <<>> THEN FALSE
    ELSE LET metric == unhealthy_metrics[1]
         IN  IF /\ metric.name \in CriticalMetrics
                /\ metric.current_value >=
                     Get(rollback_config, metric.name \o "_threshold",
                         DefaultRollbackThreshold)
             THEN TRUE
             ELSE CriticalExceeded_OrEqual(Tail(unhealthy_metrics),
                                           rollback_config)

\* the loop over unhealthy_metrics: TRUE at the first critical metric whose
\* current value exceeds its rollback threshold
RECURSIVE CriticalExceeded(_, _)
CriticalExceeded(unhealthy_metrics, rollback_config) ==
    IF unhealthy_metrics = <<>> THEN FALSE
    ELSE LET metric == unhealthy_metrics[1]
         IN  IF /\ metric.name \in CriticalMetrics
                /\ metric.current_value >
                     Get(rollback_config, metric.name \o "_threshold",
                         DefaultRollbackThreshold)
             THEN TRUE
             ELSE CriticalExceeded(Tail(unhealthy_metrics), rollback_config)

\* faulty variant: the count rule uses > instead of >=
should_trigger_rollback_StrictCount(unhealthy_metrics, cfg) ==
    LET rollback_config == cfg.rollback_triggers
    IN  IF CriticalExceeded(unhealthy_metrics, rollback_config) THEN TRUE
        ELSE IF Len(unhealthy_metrics) >
                  Get(rollback_config, "max_unhealthy_metrics",
                      DefaultMaxUnhealthyMetrics)
        THEN TRUE
        ELSE FALSE

should_trigger_rollback(unhealthy_metrics, cfg) ==
    LET rollback_config == cfg.rollback_triggers
    IN  IF CriticalExceeded(unhealthy_metrics, rollback_config) THEN TRUE
        ELSE IF Len(unhealthy_metrics) >=
                  Get(rollback_config, "max_unhealthy_metrics",
                      DefaultMaxUnhealthyMetrics)
        THEN TRUE
        ELSE FALSE

----------------------------------------------------------------------------
(* Configuration documents explored *)

\* rollback_triggers absent or {}
NoTriggers ==
    [keys |-> {}, crash_rate_threshold |-> 0, error_rate_threshold |-> 0,
     max_unhealthy_metrics |-> 0]

\* the built-in ramp of _execute_gradual_deployment
DefaultStages ==
    <<[percentage |-> 1, duration |-> 2], [percentage |-> 5, duration |-> 8],
      [percentage |-> 25, duration |-> 24], [percentage |-> 50, duration |-> 48],
      [percentage |-> 100, duration |-> 168]>>

\* configured values of the keys (the key may also be absent)
CanaryPercentages == {10}
MonitoringDurations == {0, 3600}
PropagationTimes == {60}
CanaryCheckIntervals == {1800}
GradualCheckIntervals == {3600}
StageChoices == [percentage : {5, 50}, duration : {1}]
CrashRateRollbackThresholds == {70}
MaxUnhealthyChoices == {1}

\* names a configured "health_checks" list is made of, in a fixed order
ConfigurableChecks == <<"crash_rate", "user_satisfaction", UnknownCheck>>

\* the lists of at most MaxChecks names, in the order of ConfigurableChecks
HealthCheckLists ==
    LET n == Len(ConfigurableChecks)
        idx == UNION {[1..k -> 1..n] : k \in 0..MaxChecks}
        inc == {f \in idx : \A i \in DOMAIN f : \A j \in DOMAIN f :
                                i < j => f[i] < f[j]}
    IN  {[i \in DOMAIN f |-> ConfigurableChecks[f[i]]] : f \in inc}

StageLists == UNION {[1..k -> StageChoices] : k \in 0..MaxStages}

\* a key is either absent or set to one of its values
Optional(key, values) == {<<{}, 0>>} \cup {<<{key}, v>> : v \in values}

RollbackTriggerDicts ==
    {[keys |-> c[1] \cup m[1], crash_rate_threshold |-> c[2],
      error_rate_threshold |-> 0, max_unhealthy_metrics |-> m[2]] :
        c \in Optional("crash_rate_threshold", CrashRateRollbackThresholds),
        m \in Optional("max_unhealthy_metrics", MaxUnhealthyChoices)}

Config(cp, md, st, pt, ci, hc, rt) ==
    [keys |-> cp[1] \cup md[1] \cup st[1] \cup pt[1] \cup ci[1] \cup hc[1]
                \cup {"rollback_triggers"},
     canary_percentage |-> cp[2], monitoring_duration |-> md[2],
     stages |-> st[2], propagation_time |-> pt[2], check_interval |-> ci[2],
     health_checks |-> hc[2], rollback_triggers |-> rt]

Absent == <<{}, 0>>
AbsentList == <<{}, <<>> >>
OptionalList(key, values) == {AbsentList} \cup {<<{key}, v>> : v \in values}
Present(key, values) == {<<{key}, v>> : v \in values}

\* The configurations explored for a strategy: the keys the strategy does not
\* read are absent.
ConfigsFor(s) ==
    CASE s = IMMEDIATE ->
           {Config(Absent, Absent, AbsentList, pt, Absent, AbsentList, rt) :
               pt \in Optional("propagation_time", PropagationTimes),
               rt \in {NoTriggers}}
      [] s = BLUE_GREEN ->
           {Config(Absent, Absent, AbsentList, Absent, Absent, hc, rt) :
               hc \in OptionalList("health_checks", HealthCheckLists),
               rt \in RollbackTriggerDicts}
      [] s = CANARY ->
           {Config(cp, md, AbsentList, Absent, ci, hc, rt) :
               cp \in Optional("canary_percentage", CanaryPercentages),
               md \in Optional("monitoring_duration", MonitoringDurations),
               ci \in Present("check_interval", CanaryCheckIntervals),
               hc \in OptionalList("health_checks", HealthCheckLists),
               rt \in RollbackTriggerDicts}
      [] s = GRADUAL ->
           {Config(Absent, Absent, st, Absent, ci, hc, rt) :
               st \in Present("stages", StageLists),
               ci \in Present("check_interval", GradualCheckIntervals),
               hc \in Present("health_checks", HealthCheckLists),
               rt \in {t \in RollbackTriggerDicts :
                          "crash_rate_threshold" \notin t.keys}}
      [] s = UnsupportedStrategy ->
           {Config(Absent, Absent, AbsentList, Absent, Absent, hc, rt) :
               hc \in OptionalList("health_checks", HealthCheckLists),
               rt \in {NoTriggers}}

----------------------------------------------------------------------------
(* Collaborators: the outcome of a call is chosen by the environment *)

Ok == [kind |-> "ok", msg |-> NoError]
ApiError(op) == [kind |-> "error", msg |-> op \o ": api error"]
Raises(op) == [kind |-> "raise", msg |-> op \o ": exception"]

Outcomes(op) == {Ok, ApiError(op), Raises(op)}

\* the reading a metric was computed from
QueryOf(metric) ==
    CASE metric.src = "value" -> Value(metric.current_value)
      [] metric.src = "failed" -> QueryFailed
      [] metric.src = "raised" -> QueryRaises
      [] OTHER -> NoQuery

\* the dict a rollout collaborator returns when it does not raise
ResultDict(o) ==
    IF o.kind = "ok"
    THEN [keys |-> {"success"}, success |-> TRUE, error |-> NoError]
    ELSE [keys |-> {"success", "error"}, success |-> FALSE, error |-> o.msg]

update_play_store_rollout(o) == ResultDict(o)
deploy_to_internal_track(o) == ResultDict(o)
promote_to_production_track(o) == ResultDict(o)
\* faulty variant: the verification reports the opposite
verify_deployment_Inverted(o) == o.kind # "ok"

\* True, or False when the verification fails
verify_deployment(o) == o.kind = "ok"

\* faulty variant: the version being deployed is given as the previous one
get_previous_version_Current == Version

get_previous_version == PreviousVersion

\* time a collaborator call takes
Latency(o, seconds) == IF o.kind = "ok" THEN seconds ELSE 0

Call(op, version, percentage, o, at) ==
    [op |-> op, version |-> version, percentage |-> percentage,
     out |-> o.kind, at |-> at]

Exc(op, o, at) ==
    IF o.kind = "raise" THEN {[op |-> op, msg |-> o.msg, at |-> at]} ELSE {}

\* the exceptions raised by the metric queries of one pass of health checks
QueryExcs(qs, at) ==
    {[op |-> "query_metric", msg |-> Raises("query_metric").msg, at |-> at] :
        i \in {j \in 1..Len(qs) : qs[j].kind = "raise"}}

----------------------------------------------------------------------------
(* Stage functions.  Each gives the DeploymentResult of the stage and the
   clock at its return, for the outcomes of the collaborator calls it makes. *)

Return(result, t) == [result |-> result, now |-> t]

\* faulty variant: the verification's verdict is not looked at
deploy_to_percentage_Unverified(version, percentage, stage, cfg, start_time, upd, ver) ==
    LET Failed(msg, t) ==
            Return(DeploymentResult(stage, FAILED, <<>>, t - start_time, msg), t)
    IN  IF upd.kind = "raise" THEN Failed(upd.msg, start_time)
        ELSE
        LET result == update_play_store_rollout(upd)
            t1 == start_time + Latency(upd, UpdateLatency)
        IN  IF result.success
            THEN LET propagation_time ==
                         Get(cfg, "propagation_time", DefaultPropagationTime)
                     t2 == t1 + propagation_time
                     t3 == t2 + Latency(ver, VerifyLatency)
                 IN  IF ver.kind = "raise" THEN Failed(ver.msg, t2)
                     ELSE Return(DeploymentResult(stage, SUCCESS, <<>>,
                                                  t3 - start_time, NoError), t3)
            ELSE Failed(Get(result, "error", "Deployment verification failed"),
                        t1)

\* _deploy_to_percentage: upd is the outcome of the rollout update, ver of
\* the verification
deploy_to_percentage(version, percentage, stage, cfg, start_time, upd, ver) ==
    LET Failed(msg, t) ==
            Return(DeploymentResult(stage, FAILED, <<>>, t - start_time, msg), t)
    IN  IF upd.kind = "raise" THEN Failed(upd.msg, start_time)
        ELSE
        LET result == update_play_store_rollout(upd)
            t1 == start_time + Latency(upd, UpdateLatency)
        IN  IF result.success
            THEN LET propagation_time ==
                         Get(cfg, "propagation_time", DefaultPropagationTime)
                     t2 == t1 + propagation_time
                     t3 == t2 + Latency(ver, VerifyLatency)
                 IN  IF ver.kind = "raise" THEN Failed(ver.msg, t2)
                     ELSE IF verify_deployment(ver)
                     THEN Return(DeploymentResult(stage, SUCCESS, <<>>,
                                                  t3 - start_time, NoError), t3)
                     ELSE Failed(Get(result, "error",
                                     "Deployment verification failed"), t3)
            ELSE Failed(Get(result, "error", "Deployment verification failed"),
                        t1)

\* the collaborator calls _deploy_to_percentage makes
DeployCalls(version, percentage, upd, ver, at) ==
    <<Call("update_rollout", version, percentage, upd, at)>>
        \o (IF upd.kind = "ok"
            THEN <<Call("verify_deployment", version, percentage, ver, at)>>
            ELSE <<>>)

DeployExcs(upd, ver, at) ==
    Exc("update_rollout", upd, at)
        \cup (IF upd.kind = "ok" THEN Exc("verify_deployment", ver, at) ELSE {})

\* _deploy_to_green_environment
deploy_to_green_environment(version, cfg, start_time, dep) ==
    LET Failed(msg, t) ==
            Return(DeploymentResult("green_deployment", FAILED, <<>>,
                                    t - start_time, msg), t)
    IN  IF dep.kind = "raise" THEN Failed(dep.msg, start_time)
        ELSE
        LET result == deploy_to_internal_track(dep)
            t1 == start_time + Latency(dep, InternalTrackLatency)
        IN  IF result.success
            THEN Return(DeploymentResult("green_deployment", SUCCESS, <<>>,
                                         t1 - start_time, NoError), t1)
            ELSE Failed(Get(result, "error",
                            "Green environment deployment failed"), t1)

\* _health_check_green_environment: qs are the outcomes of the metric queries,
\* check_raises tells that _run_health_check itself raises
health_check_green_environment(version, cfg, start_time, qs, check_raises) ==
    IF check_raises.kind = "raise"
    THEN Return(DeploymentResult("green_health_check", FAILED, <<>>, 0,
                                 check_raises.msg), start_time)
    ELSE
    LET health_checks == Get(cfg, "health_checks", GreenDefaultChecks)
        metrics == RunHealthChecks(health_checks, qs)
        all_healthy == \A i \in 1..Len(metrics) : metrics[i].is_healthy
        status == IF all_healthy THEN SUCCESS ELSE FAILED
    IN  Return(DeploymentResult("green_health_check", status, metrics, 0,
                                IF all_healthy THEN NoError
                                ELSE "Health checks failed"), start_time)

\* _switch_to_green_environment
switch_to_green_environment(version, cfg, start_time, pro) ==
    LET Failed(msg, t) ==
            Return(DeploymentResult("traffic_switch", FAILED, <<>>,
                                    t - start_time, msg), t)
    IN  IF pro.kind = "raise" THEN Failed(pro.msg, start_time)
        ELSE
        LET result == promote_to_production_track(pro)
            t1 == start_time + Latency(pro, PromoteLatency)
        IN  IF result.success
            THEN Return(DeploymentResult("traffic_switch", SUCCESS, <<>>,
                                         t1 - start_time, NoError), t1)
            ELSE Failed(Get(result, "error", "Traffic switch failed"), t1)

\* faulty variant: the except clause records a fixed text, not the exception's message
rollback_deployment_LosesMessage(version, percentage, start_time, upd) ==
    LET Failed(msg, t) ==
            Return(DeploymentResult("rollback", FAILED, <<>>, t - start_time,
                                    "Rollback failed"), t)
    IN  IF upd.kind = "raise" THEN Failed(upd.msg, start_time)
        ELSE
        LET result == update_play_store_rollout(upd)
            t1 == start_time + Latency(upd, UpdateLatency)
        IN  IF result.success
            THEN Return(DeploymentResult("rollback", SUCCESS, <<>>,
                                         t1 - start_time, NoError), t1)
            ELSE Failed(Get(result, "error", "Rollback failed"), t1)

\* _rollback_deployment
rollback_deployment(version, percentage, start_time, upd) ==
    LET Failed(msg, t) ==
            Return(DeploymentResult("rollback", FAILED, <<>>, t - start_time,
                                    msg), t)
    IN  IF upd.kind = "raise" THEN Failed(upd.msg, start_time)
        ELSE
        LET previous_version == get_previous_version
            result == update_play_store_rollout(upd)
            t1 == start_time + Latency(upd, UpdateLatency)
        IN  IF result.success
            THEN Return(DeploymentResult("rollback", SUCCESS, <<>>,
                                         t1 - start_time, NoError), t1)
            ELSE Failed(Get(result, "error", "Rollback failed"), t1)

\* faulty variant: a rollback that succeeded is recorded as RolledBack
rollback_to_blue_environment_RolledBack(version, start_time, slp) ==
    IF slp.kind = "ok"
    THEN Return(DeploymentResult("blue_rollback", ROLLED_BACK, <<>>,
                                 BlueRollbackLatency, NoError),
                start_time + BlueRollbackLatency)
    ELSE Return(DeploymentResult("blue_rollback", FAILED, <<>>, 0, slp.msg),
                start_time)

\* _rollback_to_blue_environment: slp is the outcome of its wait
rollback_to_blue_environment(version, start_time, slp) ==
    IF slp.kind = "ok"
    THEN Return(DeploymentResult("blue_rollback", SUCCESS, <<>>,
                                 BlueRollbackLatency, NoError),
                start_time + BlueRollbackLatency)
    ELSE Return(DeploymentResult("blue_rollback", FAILED, <<>>, 0, slp.msg),
                start_time)

----------------------------------------------------------------------------
(* _monitor_deployment *)

MonIdle ==
    [active |-> FALSE, percentage |-> 0, start_time |-> 0, end_time |-> 0,
     metrics_history |-> <<>>]

\* faulty variant: the end of the monitoring period is not taken from the clock
MonitorEntry_AbsoluteEnd(percentage, duration_seconds, t) ==
    [active |-> TRUE, percentage |-> percentage, start_time |-> t,
     end_time |-> duration_seconds, metrics_history |-> <<>>]

\* entry of _monitor_deployment
MonitorEntry(percentage, duration_seconds, t) ==
    [active |-> TRUE, percentage |-> percentage, start_time |-> t,
     end_time |-> t + duration_seconds, metrics_history |-> <<>>]

MonitoringStage(percentage) == "monitoring_" \o ToString(percentage) \o "pct"

\* faulty variant: the policy is asked even when no metric is unhealthy
PollTriggersRollback_Unguarded(current_metrics, cfg) ==
    should_trigger_rollback(Unhealthy(current_metrics), cfg)

\* the rollback check of one poll
PollTriggersRollback(current_metrics, cfg) ==
    LET unhealthy_metrics == Unhealthy(current_metrics)
    IN  /\ unhealthy_metrics # <<>>
        /\ should_trigger_rollback(unhealthy_metrics, cfg)

\* faulty variant: the Failed result of the trigger has no error message
MonitorTriggered_NoMessage(m, current_metrics, t) ==
    DeploymentResult(MonitoringStage(m.percentage), FAILED, current_metrics,
                     t - m.start_time, NoError)

\* the Failed result returned from inside the loop
MonitorTriggered(m, current_metrics, t) ==
    DeploymentResult(MonitoringStage(m.percentage), FAILED, current_metrics,
                     t - m.start_time,
                     "Rollback triggered due to unhealthy metrics")

\* faulty variant: the Success result carries the metrics of the first poll
MonitorCompleted_FirstPoll(m, t) ==
    LET final_metrics ==
            IF m.metrics_history # <<>> THEN m.metrics_history[1] ELSE <<>>
    IN  DeploymentResult(MonitoringStage(m.percentage), SUCCESS, final_metrics,
                         t - m.start_time, NoError)

\* the result returned when the loop ends
MonitorCompleted(m, t) ==
    LET final_metrics ==
            IF m.metrics_history # <<>> THEN Last(m.metrics_history) ELSE <<>>
    IN  DeploymentResult(MonitoringStage(m.percentage), SUCCESS, final_metrics,
                         t - m.start_time, NoError)

\* the result of the except clause
MonitorException(m, msg, t) ==
    DeploymentResult(MonitoringStage(m.percentage), FAILED, <<>>,
                     t - m.start_time, msg)

----------------------------------------------------------------------------
(* The run *)

NoReport ==
    [generated |-> FALSE, overall_success |-> FALSE,
     total_duration_seconds |-> 0, stages |-> <<>>]

Running == -1

NoProbe == [called |-> FALSE]

\* execute_deployment has been called once only
NoFirst == [done |-> FALSE, results |-> <<>>, polls |-> <<>>]

\* one pass of health checks made while the stage with result index `at` runs
Poll(at, metrics) == [at |-> at, metrics |-> metrics]

Init ==
    /\ strategy \in DeploymentStrategy \cup {UnsupportedStrategy}
    /\ config \in ConfigsFor(strategy)
    /\ pc = "main"
    /\ results = <<>>
    /\ stage_i = 0
    /\ mon = MonIdle
    /\ now = 0
    /\ calls = <<>>
    /\ raised = {}
    /\ polls = <<>>
    /\ probe = NoProbe
    /\ first = NoFirst
    /\ report = NoReport
    /\ exit_code = Running

\* The responses a collaborator may give to the running call: any outcome in
\* the first call of execute_deployment, the same successful response in the
\* second.
Responses(op) == IF first.done THEN {Ok} ELSE Outcomes(op)

\* The readings of the next pass of health checks: any in the first call, in
\* the second those the pass at the same position of the first call got.
PollResponses(health_checks) ==
    IF first.done /\ Len(polls) < Len(first.polls)
    THEN {[j \in 1..Len(first.polls[Len(polls) + 1].metrics) |->
              QueryOf(first.polls[Len(polls) + 1].metrics[j])]}
    ELSE PollOutcomes(health_checks)

\* locals of the strategy functions
canary_percentage == Get(config, "canary_percentage", DefaultCanaryPercentage)
monitoring_duration ==
    Get(config, "monitoring_duration", DefaultMonitoringDuration)
stages == Get(config, "stages", DefaultStages)
check_interval == Get(config, "check_interval", DefaultCheckInterval)
stage_config == stages[stage_i + 1]
GradualStageName(i) == "gradual_stage_" \o ToString(i + 1)

\* the percentage the running Canary or Gradual stage deploys and monitors
StagePercentage ==
    IF strategy = CANARY THEN canary_percentage ELSE stage_config.percentage

\* index the result of the running stage gets in `results`
At == Len(results) + 1

\* faulty variant: an unsupported strategy is deployed as Immediate
ExecuteDeployment_DefaultsToImmediate ==
    /\ pc = "main"
    /\ pc' = CASE strategy = CANARY -> "canary_deploy"
               [] strategy = BLUE_GREEN -> "green_deploy"
               [] strategy = GRADUAL -> "gradual_deploy"
               [] OTHER -> "immediate_deploy"
    /\ UNCHANGED <<first, probe, polls, strategy, config, results, stage_i, mon,
                   now, calls, report, raised, exit_code>>

\* execute_deployment: dispatch on the strategy
ExecuteDeployment ==
    /\ pc = "main"
    /\ IF strategy \in DeploymentStrategy
       THEN /\ pc' = CASE strategy = CANARY -> "canary_deploy"
                       [] strategy = BLUE_GREEN -> "green_deploy"
                       [] strategy = GRADUAL -> "gradual_deploy"
                       [] strategy = IMMEDIATE -> "immediate_deploy"
            /\ UNCHANGED <<raised, exit_code>>
       ELSE \* the exception leaves execute_deployment; the except clause of
            \* main logs it and exits
            /\ raised' = raised \cup
                   Exc("execute_deployment", Raises("execute_deployment"), At)
            /\ exit_code' = ExitFailure
            /\ pc' = "exited"
    /\ UNCHANGED <<first, probe, polls, strategy, config, results, stage_i, mon,
                   now, calls, report>>

\* _execute_immediate_deployment
ImmediateDeploy ==
    /\ pc = "immediate_deploy"
    /\ \E upd \in Responses("update_rollout"),
          ver \in Responses("verify_deployment") :
         LET r == deploy_to_percentage(Version, FullPercentage, "immediate",
                                       config, now, upd, ver)
         IN  /\ results' = <<r.result>>
             /\ now' = r.now
             /\ calls' = calls \o DeployCalls(Version, FullPercentage, upd, ver, At)
             /\ raised' = raised \cup DeployExcs(upd, ver, At)
    /\ pc' = "returned"
    /\ UNCHANGED <<first, probe, polls, strategy, config, stage_i, mon, report,
                   exit_code>>

\* _execute_canary_deployment, stage 1: deploy to the canary percentage
CanaryDeploy ==
    /\ pc = "canary_deploy"
    /\ \E upd \in Responses("update_rollout"),
          ver \in Responses("verify_deployment") :
         LET r == deploy_to_percentage(Version, canary_percentage, "canary",
                                       config, now, upd, ver)
         IN  /\ results' = Append(results, r.result)
             /\ now' = r.now
             /\ calls' = calls \o DeployCalls(Version, canary_percentage, upd,
                                              ver, At)
             /\ raised' = raised \cup DeployExcs(upd, ver, At)
             /\ IF r.result.status # SUCCESS
                THEN pc' = "returned" /\ mon' = mon
                ELSE /\ pc' = "monitor"
                     /\ mon' = MonitorEntry(canary_percentage,
                                            monitoring_duration, r.now)
    /\ UNCHANGED <<first, probe, polls, strategy, config, stage_i, report, exit_code>>

\* _execute_canary_deployment, stage 3: full deployment
CanaryFull ==
    /\ pc = "canary_full"
    /\ \E upd \in Responses("update_rollout"),
          ver \in Responses("verify_deployment") :
         LET r == deploy_to_percentage(Version, FullPercentage, "full", config,
                                       now, upd, ver)
         IN  /\ results' = Append(results, r.result)
             /\ now' = r.now
             /\ calls' = calls \o DeployCalls(Version, FullPercentage, upd, ver, At)
             /\ raised' = raised \cup DeployExcs(upd, ver, At)
    /\ pc' = "returned"
    /\ UNCHANGED <<first, probe, polls, strategy, config, stage_i, mon, report,
                   exit_code>>

\* _execute_gradual_deployment: one iteration's deploy
GradualDeploy ==
    /\ pc = "gradual_deploy"
    /\ stage_i < Len(stages)
    /\ LET percentage == stage_config.percentage
           duration_hours == stage_config.duration
       IN  \E upd \in Responses("update_rollout"),
              ver \in Responses("verify_deployment") :
             LET r == deploy_to_percentage(Version, percentage,
                                           GradualStageName(stage_i), config,
                                           now, upd, ver)
             IN  /\ results' = Append(results, r.result)
                 /\ now' = r.now
                 /\ calls' = calls \o DeployCalls(Version, percentage, upd, ver,
                                                  At)
                 /\ raised' = raised \cup DeployExcs(upd, ver, At)
                 /\ IF r.result.status # SUCCESS
                    THEN pc' = "returned" /\ mon' = mon
                    ELSE /\ pc' = "monitor"
                         /\ mon' = MonitorEntry(percentage,
                                        duration_hours * SecondsPerHour, r.now)
    /\ UNCHANGED <<first, probe, polls, strategy, config, stage_i, report, exit_code>>

\* _execute_gradual_deployment: the stage list is exhausted
GradualEnd ==
    /\ pc = "gradual_deploy"
    /\ stage_i >= Len(stages)
    /\ pc' = "returned"
    /\ UNCHANGED <<first, probe, polls, strategy, config, results, stage_i, mon, now,
                   calls, raised,
                   report, exit_code>>

\* faulty variant: the return / break after the rollback is missing
RollbackNext_Continue ==
    IF strategy = CANARY THEN "canary_full" ELSE "gradual_deploy"

\* Canary and Gradual after the rollback result is appended: return / break
RollbackNext == "returned"

\* faulty variant: the blue rollback is run whatever the traffic switch gave
TrafficSwitchNext_Always(status) == "blue_rollback"

\* BlueGreen after the traffic switch result is appended
TrafficSwitchNext(status) ==
    IF status # SUCCESS THEN "blue_rollback" ELSE "returned"

\* faulty variant: the run goes on to the traffic switch after a failed health check
GreenHealthCheckNext_NoStop(status) == "traffic_switch"

\* BlueGreen after the green health check result is appended
GreenHealthCheckNext(status) ==
    IF status # SUCCESS THEN "returned" ELSE "traffic_switch"

\* faulty variant: a failed monitoring ends the run without a rollback
AfterMonitor_NoRollback(monitoring_result) ==
    /\ results' = Append(results, monitoring_result)
    /\ mon' = MonIdle
    /\ IF monitoring_result.status # SUCCESS
       THEN pc' = "returned" /\ stage_i' = stage_i
       ELSE IF strategy = CANARY
       THEN pc' = "canary_full" /\ stage_i' = stage_i
       ELSE pc' = "gradual_deploy" /\ stage_i' = stage_i + 1

\* faulty variant: a failed monitoring is rolled back but the sequence goes on
AfterMonitor_NoHalt(monitoring_result) ==
    /\ results' = Append(results, monitoring_result)
    /\ mon' = MonIdle
    /\ IF strategy = CANARY
       THEN pc' = "canary_full" /\ stage_i' = stage_i
       ELSE pc' = "gradual_deploy" /\ stage_i' = stage_i + 1

\* what the caller of _monitor_deployment does with its result
AfterMonitor(monitoring_result) ==
    /\ results' = Append(results, monitoring_result)
    /\ mon' = MonIdle
    /\ IF monitoring_result.status # SUCCESS
       THEN pc' = "rollback" /\ stage_i' = stage_i
       ELSE IF strategy = CANARY
       THEN pc' = "canary_full" /\ stage_i' = stage_i
       ELSE pc' = "gradual_deploy" /\ stage_i' = stage_i + 1

\* one iteration of the loop of _monitor_deployment
MonitorPoll ==
    /\ pc = "monitor"
    /\ now < mon.end_time
    /\ LET health_checks == Get(config, "health_checks", MonitorDefaultChecks)
       IN  \E qs \in PollResponses(health_checks) :
             LET current_metrics == RunHealthChecks(health_checks, qs)
                 history == Append(mon.metrics_history, current_metrics)
             IN  /\ raised' = raised \cup QueryExcs(qs, At)
                 /\ polls' = Append(polls, Poll(At, current_metrics))
                 /\ IF PollTriggersRollback(current_metrics, config)
                    THEN /\ AfterMonitor(MonitorTriggered(mon, current_metrics,
                                                          now))
                         /\ now' = now
                    ELSE /\ mon' = [mon EXCEPT !.metrics_history = history]
                         /\ now' = now + check_interval
                         /\ UNCHANGED <<pc, results, stage_i>>
    /\ UNCHANGED <<first, probe, strategy, config, calls, report, exit_code>>

\* a health check raises inside the loop: the except clause
MonitorPollRaises ==
    /\ pc = "monitor"
    /\ now < mon.end_time
    /\ Get(config, "health_checks", MonitorDefaultChecks) # <<>>
    /\ ~first.done
    /\ LET e == Raises("run_health_check")
       IN  /\ AfterMonitor(MonitorException(mon, e.msg, now))
           /\ raised' = raised \cup Exc("run_health_check", e, At)
    /\ UNCHANGED <<first, probe, polls, strategy, config, now, calls, report,
                   exit_code>>

\* faulty variant: the loop is left only once the clock is past the end time
MonitorComplete_PastEnd ==
    /\ pc = "monitor"
    /\ now > mon.end_time
    /\ AfterMonitor(MonitorCompleted(mon, now))
    /\ UNCHANGED <<first, probe, polls, strategy, config, now, calls, raised,
                   report, exit_code>>

\* the monitoring period is over
MonitorComplete ==
    /\ pc = "monitor"
    /\ ~(now < mon.end_time)
    /\ AfterMonitor(MonitorCompleted(mon, now))
    /\ UNCHANGED <<first, probe, polls, strategy, config, now, calls, raised, report,
                   exit_code>>

\* the rollback of Canary and Gradual after a failed monitoring
Rollback ==
    /\ pc = "rollback"
    /\ \E upd \in Responses("update_rollout") :
         LET r == rollback_deployment(Version, StagePercentage, now, upd)
         IN  /\ results' = Append(results, r.result)
             /\ now' = r.now
             /\ calls' = Append(calls, Call("update_rollout",
                                            get_previous_version,
                                            StagePercentage, upd, At))
             /\ raised' = raised \cup Exc("update_rollout", upd, At)
    /\ pc' = RollbackNext
    /\ UNCHANGED <<first, probe, polls, strategy, config, stage_i, mon, report,
                   exit_code>>

\* _execute_blue_green_deployment, stage 1
GreenDeploy ==
    /\ pc = "green_deploy"
    /\ \E dep \in Responses("deploy_to_internal_track") :
         LET r == deploy_to_green_environment(Version, config, now, dep)
         IN  /\ results' = Append(results, r.result)
             /\ now' = r.now
             /\ calls' = Append(calls, Call("deploy_to_internal_track", Version,
                                            0, dep, At))
             /\ raised' = raised \cup Exc("deploy_to_internal_track", dep, At)
             /\ pc' = IF r.result.status # SUCCESS THEN "returned"
                      ELSE "green_health_check"
    /\ UNCHANGED <<first, probe, polls, strategy, config, stage_i, mon, report,
                   exit_code>>

\* _execute_blue_green_deployment, stage 2
GreenHealthCheck ==
    /\ pc = "green_health_check"
    /\ LET health_checks == Get(config, "health_checks", GreenDefaultChecks)
       IN  \E qs \in PollResponses(health_checks),
              chk \in {Ok} \cup (IF health_checks # <<>> /\ ~first.done
                                 THEN {Raises("run_health_check")} ELSE {}) :
             LET r == health_check_green_environment(Version, config, now, qs,
                                                     chk)
             IN  /\ results' = Append(results, r.result)
                 /\ now' = r.now
                 /\ raised' = raised
                        \cup Exc("run_health_check", chk, At)
                        \cup (IF chk.kind = "raise" THEN {}
                              ELSE QueryExcs(qs, At))
                 /\ polls' = IF chk.kind = "raise" THEN polls
                             ELSE Append(polls, Poll(At, r.result.metrics))
                 /\ pc' = GreenHealthCheckNext(r.result.status)
    /\ UNCHANGED <<first, probe, strategy, config, stage_i, mon, calls, report,
                   exit_code>>

\* _execute_blue_green_deployment, stage 3
TrafficSwitch ==
    /\ pc = "traffic_switch"
    /\ \E pro \in Responses("promote_to_production_track") :
         LET r == switch_to_green_environment(Version, config, now, pro)
         IN  /\ results' = Append(results, r.result)
             /\ now' = r.now
             /\ calls' = Append(calls, Call("promote_to_production_track",
                                            Version, 0, pro, At))
             /\ raised' = raised \cup Exc("promote_to_production_track", pro, At)
             /\ pc' = TrafficSwitchNext(r.result.status)
    /\ UNCHANGED <<first, probe, polls, strategy, config, stage_i, mon, report,
                   exit_code>>

\* _execute_blue_green_deployment: rollback after a failed traffic switch
BlueRollback ==
    /\ pc = "blue_rollback"
    /\ \E slp \in Responses("sleep") \ {ApiError("sleep")} :
         LET r == rollback_to_blue_environment(Version, now, slp)
         IN  /\ results' = Append(results, r.result)
             /\ now' = r.now
    /\ pc' = "returned"
    /\ UNCHANGED <<first, probe, polls, strategy, config, stage_i, mon, calls, raised,
                   report,
                   exit_code>>

\* faulty variant: the stages of the report are listed latest first
generate_deployment_report_Reversed(rs) ==
    LET overall_success == \A i \in 1..Len(rs) : rs[i].status = SUCCESS
        total_duration == SumDurations(rs)
    IN  [generated |-> TRUE, overall_success |-> overall_success,
         total_duration_seconds |-> total_duration,
         stages |-> [i \in 1..Len(rs) |->
                        [name |-> rs[Len(rs) + 1 - i].stage,
                         status |-> rs[Len(rs) + 1 - i].status,
                         duration_seconds |-> rs[Len(rs) + 1 - i].duration_seconds,
                         metrics |-> rs[Len(rs) + 1 - i].metrics,
                         error |-> rs[Len(rs) + 1 - i].error_message]]]

\* faulty variant: overall_success is the status of the last result only
generate_deployment_report_LastOnly(rs) ==
    LET overall_success == rs = <<>> \/ Last(rs).status = SUCCESS
        total_duration == SumDurations(rs)
    IN  [generated |-> TRUE, overall_success |-> overall_success,
         total_duration_seconds |-> total_duration,
         stages |-> [i \in 1..Len(rs) |->
                        [name |-> rs[i].stage, status |-> rs[i].status,
                         duration_seconds |-> rs[i].duration_seconds,
                         metrics |-> rs[i].metrics,
                         error |-> rs[i].error_message]]]

\* generate_deployment_report
generate_deployment_report(rs) ==
    LET overall_success == \A i \in 1..Len(rs) : rs[i].status = SUCCESS
        total_duration == SumDurations(rs)
    IN  [generated |-> TRUE, overall_success |-> overall_success,
         total_duration_seconds |-> total_duration,
         stages |-> [i \in 1..Len(rs) |->
                        [name |-> rs[i].stage, status |-> rs[i].status,
                         duration_seconds |-> rs[i].duration_seconds,
                         metrics |-> rs[i].metrics,
                         error |-> rs[i].error_message]]]

\* faulty variant: the exit status ignores the report
exit_status_AlwaysZero(rep) == ExitSuccess

\* main: sys.exit(1) if the report's overall_success is false
exit_status(rep) == IF ~rep.overall_success THEN ExitFailure ELSE ExitSuccess

\* main after execute_deployment returns: the report, then the exit status.
\* wr is the outcome of writing the report file; when it raises, the except
\* clause of main exits.
ReportAndExit ==
    /\ pc = "returned"
    /\ \E wr \in {Ok, Raises("open")} :
         IF wr.kind = "raise"
         THEN /\ report' = report
              /\ raised' = raised \cup Exc("open", wr, At)
              /\ exit_code' = ExitFailure
         ELSE /\ report' = generate_deployment_report(results)
              /\ raised' = raised
              /\ exit_code' = exit_status(report')
    /\ pc' = "exited"
    /\ UNCHANGED <<first, probe, polls, strategy, config, results, stage_i, mon,
                   now, calls>>

\* every rollout collaborator call of the run reported success and nothing
\* raised
AllActionsSucceeded ==
    /\ \A k \in 1..Len(calls) : calls[k].out = "ok"
    /\ raised = {}

\* execute_deployment is called again on the same manager, with the same
\* strategy, version and config, after a call in which every collaborator
\* responded successfully.  The locals of the call start afresh; the
\* histories restart with it.
ExecuteDeploymentAgain ==
    /\ pc = "returned"
    /\ ~first.done
    /\ AllActionsSucceeded
    /\ first' = [done |-> TRUE, results |-> results, polls |-> polls]
    /\ pc' = "main"
    /\ results' = <<>>
    /\ stage_i' = 0
    /\ calls' = <<>>
    /\ polls' = <<>>
    /\ UNCHANGED <<probe, strategy, config, mon, now, raised, report,
                   exit_code>>

Next ==
    \/ ExecuteDeployment
    \/ ImmediateDeploy
    \/ CanaryDeploy
    \/ CanaryFull
    \/ GradualDeploy
    \/ GradualEnd
    \/ MonitorPoll
    \/ MonitorPollRaises
    \/ MonitorComplete
    \/ Rollback
    \/ GreenDeploy
    \/ GreenHealthCheck
    \/ TrafficSwitch
    \/ BlueRollback
    \/ ReportAndExit
    \/ ExecuteDeploymentAgain

Spec == Init /\ [][Next]_vars

----------------------------------------------------------------------------
(* Vocabulary of the properties *)

Done == pc \in {"returned", "exited"}

IsRollback(r) == r.stage \in {"rollback", "blue_rollback"}

\* the percentages a stage of the explored runs can have
AllPercentages ==
    {DefaultCanaryPercentage, FullPercentage} \cup CanaryPercentages
        \cup {s.percentage : s \in StageChoices}

MonitoringStages == {MonitoringStage(p) : p \in AllPercentages}

IsMonitoring(r) == r.stage \in MonitoringStages

IsFailedStage(i) == results[i].status = FAILED /\ ~IsRollback(results[i])

\* the passes of health checks made for the result with index i
PollsOf(i) == {k \in 1..Len(polls) : polls[k].at = i}

UnhealthyIn(metrics) == {j \in 1..Len(metrics) : ~metrics[j].is_healthy}

\* the rollback-trigger policy, stated on one pass of health checks
TriggerFires(metrics) ==
    LET bad == UnhealthyIn(metrics)
        limit(name) ==
            IF name \o "_threshold" \in config.rollback_triggers.keys
            THEN config.rollback_triggers[name \o "_threshold"]
            ELSE DefaultRollbackThreshold
        most == IF "max_unhealthy_metrics" \in config.rollback_triggers.keys
                THEN config.rollback_triggers.max_unhealthy_metrics
                ELSE DefaultMaxUnhealthyMetrics
    IN  \/ \E j \in bad : /\ metrics[j].name \in {"crash_rate", "error_rate"}
                          /\ metrics[j].current_value > limit(metrics[j].name)
        \/ Cardinality(bad) >= most

----------------------------------------------------------------------------
(* C1 *)

\* C1: once a Failed result has been appended no further deploy, monitoring,
\* health-check or traffic-switch stage is executed: the Failed result is the
\* last one, or it is followed by exactly one result, a rollback, which is the
\* last one; no collaborator call is made for a later stage, and the only call
\* made after it is the rollback's.
C1_FailedStageHalts ==
    \A i \in 1..Len(results) :
        results[i].status = FAILED =>
            /\ \/ i = Len(results)
               \/ /\ i + 1 = Len(results)
                  /\ ~IsRollback(results[i])
                  /\ IsRollback(results[i + 1])
            /\ \A k \in 1..Len(calls) :
                   \/ calls[k].at <= i
                   \/ /\ calls[k].at = i + 1
                      /\ calls[k].version = PreviousVersion
            /\ \A k \in 1..Len(polls) : polls[k].at <= i
            /\ pc \in {"rollback", "blue_rollback", "returned", "exited"}
            /\ ~mon.active

\* a finished run in which a stage failed and a rollback followed it
C1_Witness ==
    /\ pc = "exited"
    /\ \E i \in 1..Len(results) :
           /\ IsFailedStage(i)
           /\ i + 1 = Len(results)
           /\ IsRollback(results[i + 1])
           /\ i >= 4

----------------------------------------------------------------------------
(* C2 *)

\* C2 (as the specification states it): in a finished run every Failed non-rollback stage is
\* followed by a rollback result.
C2_EveryFailureRollsBack ==
    Done => \A i \in 1..Len(results) :
                IsFailedStage(i) =>
                    \E j \in (i + 1)..Len(results) : IsRollback(results[j])

\* C2 (amended): a failure at any stage halts the sequence; a rollback result
\* follows the Failed stage exactly when that stage is a monitoring stage of
\* Canary or Gradual or the traffic switch of BlueGreen.  A failed deploy to a
\* percentage, green deployment or green health check ends the run without a
\* rollback.
C2_FailureHaltsRollbackAfterMonitorOrSwitch ==
    Done => \A i \in 1..Len(results) :
                IsFailedStage(i) =>
                    /\ \A j \in (i + 1)..Len(results) :
                           j = i + 1 /\ IsRollback(results[j])
                    /\ (i < Len(results)) <=>
                           \/ IsMonitoring(results[i])
                           \/ results[i].stage = "traffic_switch"

\* a finished Gradual run whose second stage failed in monitoring and was
\* rolled back
C2_Witness ==
    /\ pc = "exited"
    /\ strategy = GRADUAL
    /\ Len(results) = 5
    /\ IsMonitoring(results[4])
    /\ results[4].status = FAILED
    /\ results[5].stage = "rollback"

----------------------------------------------------------------------------
(* C3 *)

\* C3 (as the specification states it): a monitoring result is Success only if every health check
\* was healthy in every poll of its monitoring window.  Only readings the
\* backend really gave are counted, so that a violation does not rest on how
\* a failed query is classified.
C3_SuccessOnlyIfAlwaysHealthy ==
    \A i \in 1..Len(results) :
        IsMonitoring(results[i]) /\ results[i].status = SUCCESS =>
            \A k \in PollsOf(i) :
                \A j \in UnhealthyIn(polls[k].metrics) :
                    polls[k].metrics[j].src # "value"

\* C3 (amended): a monitoring result is Success only if the rollback trigger
\* fired in no poll of its window: no poll saw a crash_rate or error_rate above
\* its rollback threshold or at least max_unhealthy_metrics unhealthy metrics.
\* Unhealthy metrics that do not fire the trigger do not prevent Success.  A
\* green health check is Success only if all its checks were healthy.
C3_SuccessOnlyIfNeverTriggered ==
    \A i \in 1..Len(results) :
        /\ IsMonitoring(results[i]) /\ results[i].status = SUCCESS =>
               \A k \in PollsOf(i) :
                   \/ UnhealthyIn(polls[k].metrics) = {}
                   \/ ~TriggerFires(polls[k].metrics)
        /\ results[i].stage = "green_health_check"
                /\ results[i].status = SUCCESS =>
               \A k \in PollsOf(i) : UnhealthyIn(polls[k].metrics) = {}

\* a monitoring stage that ended Success although a poll of its window saw an
\* unhealthy metric
C3_Witness ==
    \E i \in 1..Len(results) :
        /\ IsMonitoring(results[i])
        /\ results[i].status = SUCCESS
        /\ \E k \in PollsOf(i) :
               \E j \in UnhealthyIn(polls[k].metrics) :
                   polls[k].metrics[j].src = "value"

----------------------------------------------------------------------------
(* C4 *)

\* a call that deploys the new version for the stage with result index i
DeployCallsAt(i) ==
    {k \in 1..Len(calls) : /\ calls[k].at = i
                           /\ calls[k].op = "update_rollout"
                           /\ calls[k].version = Version}

\* C4: in a Canary run whose monitoring fired the rollback trigger the finished
\* result sequence is exactly [canary (Success), monitoring (Failed),
\* rollback], and no full deployment is executed; a full (100%) deployment is
\* executed only as third stage after a Success monitoring result.
C4_CanaryTriggerSequence ==
    strategy = CANARY =>
        /\ (\E k \in 1..Len(polls) :
                /\ UnhealthyIn(polls[k].metrics) # {}
                /\ TriggerFires(polls[k].metrics)) =>
               /\ Len(results) <= 3
               /\ \A i \in 1..Len(results) : results[i].stage # "full"
               /\ \A k \in 1..Len(calls) :
                      calls[k].version = Version => calls[k].at = 1
               /\ Done =>
                      /\ Len(results) = 3
                      /\ results[1].stage = "canary"
                      /\ results[1].status = SUCCESS
                      /\ results[2].stage = MonitoringStage(canary_percentage)
                      /\ results[2].status = FAILED
                      /\ results[3].stage = "rollback"
        /\ \A i \in 1..Len(results) :
               results[i].stage = "full" \/ (i > 1 /\ DeployCallsAt(i) # {}) =>
                   /\ i = 3
                   /\ IsMonitoring(results[2])
                   /\ results[2].status = SUCCESS

\* a finished Canary run whose monitoring fired the trigger in its second poll
C4_Witness ==
    /\ strategy = CANARY
    /\ pc = "exited"
    /\ Len(polls) = 2
    /\ TriggerFires(polls[2].metrics)
    /\ UnhealthyIn(polls[2].metrics) # {}
    /\ Len(results) = 3

----------------------------------------------------------------------------
(* C5 *)

\* C5: in a finished Gradual run in which the monitoring of stage k failed, the
\* result sequence is, for every stage j < k, a Success deploy and a Success
\* monitoring, then the Success deploy of stage k, its Failed monitoring and
\* one rollback; nothing of a stage after k is deployed or monitored.
C5_GradualStopsAtFailedStage ==
    strategy = GRADUAL /\ Done =>
        \A i \in 1..Len(results) :
            IsMonitoring(results[i]) /\ results[i].status = FAILED =>
                \E k \in 1..Len(stages) :
                    /\ i = 2 * k
                    /\ Len(results) = 2 * k + 1
                    /\ \A j \in 1..k :
                           /\ results[2 * j - 1].stage = GradualStageName(j - 1)
                           /\ results[2 * j - 1].status = SUCCESS
                           /\ results[2 * j].stage =
                                  MonitoringStage(stages[j].percentage)
                           /\ j < k => results[2 * j].status = SUCCESS
                    /\ results[2 * k + 1].stage = "rollback"
                    /\ \A c \in 1..Len(calls) : calls[c].at <= 2 * k + 1
                    /\ \A c \in 1..Len(polls) : polls[c].at <= 2 * k
                    /\ Cardinality({c \in 1..Len(calls) :
                           /\ calls[c].op = "update_rollout"
                           /\ calls[c].version = Version}) = k

\* a finished Gradual run whose second stage failed in monitoring
C5_Witness ==
    /\ strategy = GRADUAL
    /\ pc = "exited"
    /\ Len(stages) >= 2
    /\ Len(results) = 5
    /\ IsMonitoring(results[4])
    /\ results[4].status = FAILED
    /\ results[2].status = SUCCESS

----------------------------------------------------------------------------
(* C6 *)

\* C6: in a BlueGreen run whose green health check Failed the promotion to the
\* production track is never called and no traffic-switch or blue_rollback
\* result is produced; a finished run has a blue_rollback result if and only
\* if the traffic switch was executed and Failed.
C6_BlueGreenRollbackOnlyAfterSwitch ==
    strategy = BLUE_GREEN =>
        /\ (\E i \in 1..Len(results) :
                /\ results[i].stage = "green_health_check"
                /\ results[i].status = FAILED) =>
               /\ \A k \in 1..Len(calls) :
                      calls[k].op # "promote_to_production_track"
               /\ \A i \in 1..Len(results) :
                      results[i].stage \notin {"traffic_switch", "blue_rollback"}
        /\ Done =>
               ((\E i \in 1..Len(results) : results[i].stage = "blue_rollback")
                <=> (\E i \in 1..Len(results) :
                         /\ results[i].stage = "traffic_switch"
                         /\ results[i].status = FAILED))

\* a finished BlueGreen run that stopped at a Failed green health check
C6_Witness ==
    /\ strategy = BLUE_GREEN
    /\ pc = "exited"
    /\ Len(results) = 2
    /\ results[2].stage = "green_health_check"
    /\ results[2].status = FAILED

----------------------------------------------------------------------------
(* C7 *)

\* every health check of every pass was healthy
AllChecksHealthy == \A k \in 1..Len(polls) : UnhealthyIn(polls[k].metrics) = {}

\* the stage names of the strategy's full sequence
FullSequence ==
    CASE strategy = IMMEDIATE -> <<"immediate">>
      [] strategy = CANARY ->
           <<"canary", MonitoringStage(canary_percentage), "full">>
      [] strategy = BLUE_GREEN ->
           <<"green_deployment", "green_health_check", "traffic_switch">>
      [] strategy = GRADUAL ->
           [i \in 1..(2 * Len(stages)) |->
               IF i % 2 = 1 THEN GradualStageName((i - 1) \div 2)
               ELSE MonitoringStage(stages[i \div 2].percentage)]

\* C7: for each strategy, a run in which every collaborator action reported
\* success and every health check of every poll was healthy executes the
\* strategy's full stage sequence, has no Failed or RolledBack result, and its
\* report has overall_success true.
C7_AllHealthyRunSucceeds ==
    pc = "exited" /\ AllActionsSucceeded /\ AllChecksHealthy =>
        /\ [i \in 1..Len(results) |-> results[i].stage] = FullSequence
        /\ \A i \in 1..Len(results) : results[i].status = SUCCESS
        /\ report.generated
        /\ report.overall_success

\* a finished two-stage Gradual run with every action successful and every
\* check healthy in the polls that were made
C7_Witness ==
    /\ pc = "exited"
    /\ strategy = GRADUAL
    /\ Len(stages) = 2
    /\ AllActionsSucceeded
    /\ AllChecksHealthy
    /\ Len(polls) = 2
    /\ Len(polls[2].metrics) = 2

----------------------------------------------------------------------------
(* C8 *)

\* C8 (as the specification states it): every exception raised by a collaborator call of a stage,
\* a metric query included, makes that stage's result Failed with the
\* exception's message.
C8_EveryExceptionFailsItsStage ==
    \A e \in raised :
        e.at <= Len(results) =>
            /\ results[e.at].status = FAILED
            /\ results[e.at].error_message = e.msg

\* C8 (amended): an exception raised by a rollout update, verification,
\* internal-track deploy, promotion, rollback update or health-check call is
\* caught at its stage and makes that stage's result Failed with the
\* exception's message.  An exception raised by a metric query is caught
\* inside the health check and yields that check's healthy fallback metric
\* instead of failing the stage.  In both cases the run still returns its
\* result sequence and the report is generated from it: the process ends
\* without a report only when the strategy is unsupported or the report file
\* cannot be written.
C8_ExceptionsCaughtAtStage ==
    /\ \A e \in raised :
           e.op # "query_metric" /\ e.at <= Len(results) =>
               /\ results[e.at].status = FAILED
               /\ results[e.at].error_message = e.msg
    /\ \A k \in 1..Len(polls) : \A j \in 1..Len(polls[k].metrics) :
           polls[k].metrics[j].src = "raised" =>
               /\ polls[k].metrics[j].is_healthy
               /\ \E e \in raised : e.op = "query_metric" /\ e.at = polls[k].at
    /\ pc = "exited" =>
           \/ /\ report.generated
              /\ Len(report.stages) = Len(results)
           \/ \E e \in raised : e.op \in {"execute_deployment", "open"}

\* a finished run in which the rollback's rollout update raised
C8_Witness ==
    /\ pc = "exited"
    /\ \E e \in raised :
           /\ e.op = "update_rollout"
           /\ e.at = Len(results)
           /\ results[e.at].stage = "rollback"

----------------------------------------------------------------------------
(* C9 *)

\* the result with index i is a stage that runs health checks, every pass of
\* which was made without a health-check call raising, and every unhealthy
\* metric it saw came from a failed or raising query
OnlyQueryFailures(i) ==
    /\ IsMonitoring(results[i]) \/ results[i].stage = "green_health_check"
    /\ \A e \in raised : e.at = i => e.op = "query_metric"
    /\ \A k \in PollsOf(i) : \A j \in UnhealthyIn(polls[k].metrics) :
           polls[k].metrics[j].src \in {"failed", "raised"}

\* C9: a failed metric query (one that returns the failure default 0.0, or
\* raises) gives a healthy HealthMetric for each check, so a green health check
\* or monitoring stage whose only problem is query failures ends Success.
C9_QueryFailureIsHealthy ==
    /\ \A k \in 1..Len(polls) : \A j \in 1..Len(polls[k].metrics) :
           polls[k].metrics[j].src \in {"failed", "raised"} =>
               polls[k].metrics[j].is_healthy
    /\ \A i \in 1..Len(results) :
           OnlyQueryFailures(i) => results[i].status = SUCCESS

----------------------------------------------------------------------------
(* The rollback-trigger policy called directly *)

\* unhealthy metrics the policy is called with: critical metrics around the
\* rollback thresholds 5.0 and 6.0, and a response time above its threshold
PolicyMetrics ==
    {HealthMetric(n, v, IF n = "crash_rate" THEN CrashRateThreshold
                        ELSE ErrorRateThreshold, "less_than", FALSE, "value") :
        n \in {"crash_rate", "error_rate"}, v \in {50, 51, 60, 61}}
    \cup {HealthMetric("response_time", 6000, ResponseTimeThreshold,
                       "less_than", FALSE, "value")}

PolicyMetricLists == UNION {[1..k -> PolicyMetrics] : k \in 0..MaxUnhealthy}

\* rollback thresholds given for response_time, which is not a critical
\* metric: one below and one above the reading of PolicyMetrics
ResponseTimeRollbackThresholds == {5500, 7000}

PolicyTriggerDicts ==
    {[keys |-> c[1] \cup e[1] \cup m[1] \cup r[1],
      crash_rate_threshold |-> c[2], error_rate_threshold |-> e[2],
      max_unhealthy_metrics |-> m[2], response_time_threshold |-> r[2]] :
        c \in Optional("crash_rate_threshold", {60}),
        e \in Optional("error_rate_threshold", {60}),
        m \in Optional("max_unhealthy_metrics", {2}),
        r \in Optional("response_time_threshold",
                       ResponseTimeRollbackThresholds)}

InitPolicy ==
    /\ strategy = IMMEDIATE
    /\ config \in {Config(Absent, Absent, AbsentList, Absent, Absent,
                          AbsentList, rt) : rt \in PolicyTriggerDicts}
    /\ pc = "policy"
    /\ results = <<>>
    /\ stage_i = 0
    /\ mon = MonIdle
    /\ now = 0
    /\ calls = <<>>
    /\ raised = {}
    /\ polls = <<>>
    /\ probe = NoProbe
    /\ first = NoFirst
    /\ report = NoReport
    /\ exit_code = Running

\* _should_trigger_rollback(unhealthy_metrics, config), called on its own
CallShouldTriggerRollback ==
    /\ pc = "policy"
    /\ ~probe.called
    /\ \E unhealthy_metrics \in PolicyMetricLists :
         probe' = [called |-> TRUE, unhealthy_metrics |-> unhealthy_metrics,
                   result |-> should_trigger_rollback(unhealthy_metrics,
                                                      config)]
    /\ UNCHANGED <<first, strategy, config, pc, results, stage_i, mon, now,
                   calls, raised, polls, report, exit_code>>

NextPolicy == CallShouldTriggerRollback

SpecPolicy == InitPolicy /\ [][NextPolicy]_vars

----------------------------------------------------------------------------
(* C10 *)

\* C10: _should_trigger_rollback(unhealthy_metrics, config) is true if and only
\* if (a) some metric of the list named crash_rate or error_rate has a current
\* value strictly greater than its configured "<name>_threshold" (5.0 when not
\* configured), or (b) the list has at least the configured
\* max_unhealthy_metrics (3 when not configured) metrics.  With the default
\* config it is true for [crash_rate = 6.0] and false for [response_time].
C10_TriggerPolicy ==
    probe.called =>
        LET ms == probe.unhealthy_metrics
            rt == config.rollback_triggers
            a == \E j \in 1..Len(ms) :
                     \/ /\ ms[j].name = "crash_rate"
                        /\ ms[j].current_value >
                             (IF "crash_rate_threshold" \in rt.keys
                              THEN rt.crash_rate_threshold ELSE 50)
                     \/ /\ ms[j].name = "error_rate"
                        /\ ms[j].current_value >
                             (IF "error_rate_threshold" \in rt.keys
                              THEN rt.error_rate_threshold ELSE 50)
            b == Len(ms) >= (IF "max_unhealthy_metrics" \in rt.keys
                             THEN rt.max_unhealthy_metrics ELSE 3)
        IN  /\ probe.result <=> (a \/ b)
            /\ rt.keys = {} /\ Len(ms) = 1 /\ ms[1].name = "crash_rate"
                    /\ ms[1].current_value = 60 => probe.result
            /\ rt.keys = {} /\ Len(ms) = 1 /\ ms[1].name = "response_time" =>
                   ~probe.result

\* the policy called with the default config on [crash_rate = 6.0]
C10_Witness ==
    /\ probe.called
    /\ config.rollback_triggers.keys = {}
    /\ Len(probe.unhealthy_metrics) = 1
    /\ probe.unhealthy_metrics[1].name = "crash_rate"
    /\ probe.unhealthy_metrics[1].current_value = 60
    /\ probe.result

----------------------------------------------------------------------------
(* C11 *)

KnownNames == {KnownChecks[i] : i \in DOMAIN KnownChecks}

\* the metrics of the six named checks, in order
RECURSIVE KnownOnly(_)
KnownOnly(metrics) ==
    IF metrics = <<>> THEN <<>>
    ELSE IF metrics[1].name \in KnownNames
    THEN <<metrics[1]>> \o KnownOnly(Tail(metrics))
    ELSE KnownOnly(Tail(metrics))

\* a health-check call raised while the stage with result index i ran
CheckRaisedAt(i) == \E e \in raised : e.op = "run_health_check" /\ e.at = i

\* C11: the metric of an unknown health-check name is healthy and no query is
\* made for it; it is never among the unhealthy metrics and never changes
\* whether the rollback trigger fires; the status of every monitoring stage and
\* green health check is the one the known names of the list alone give.
C11_UnknownCheckNeverCounts ==
    /\ \A k \in 1..Len(polls) :
           LET ms == polls[k].metrics
           IN  /\ \A j \in 1..Len(ms) :
                      ms[j].name \notin KnownNames =>
                          ms[j].is_healthy /\ ms[j].src = "unknown"
               /\ Unhealthy(ms) = Unhealthy(KnownOnly(ms))
               /\ PollTriggersRollback(ms, config)
                      <=> PollTriggersRollback(KnownOnly(ms), config)
    /\ \A i \in 1..Len(results) :
           /\ IsMonitoring(results[i]) /\ ~CheckRaisedAt(i) =>
                  (results[i].status = SUCCESS <=>
                      \A k \in PollsOf(i) :
                          ~PollTriggersRollback(KnownOnly(polls[k].metrics),
                                                config))
           /\ results[i].stage = "green_health_check" /\ ~CheckRaisedAt(i) =>
                  (results[i].status = SUCCESS <=>
                      \A k \in PollsOf(i) :
                          Unhealthy(KnownOnly(polls[k].metrics)) = <<>>)

\* a monitoring stage that ended Success after a poll over an unknown name and
\* an unhealthy known metric
C11_Witness ==
    \E i \in 1..Len(results) :
        /\ IsMonitoring(results[i])
        /\ results[i].status = SUCCESS
        /\ \E k \in PollsOf(i) :
               /\ KnownOnly(polls[k].metrics) # polls[k].metrics
               /\ Unhealthy(polls[k].metrics) # <<>>

----------------------------------------------------------------------------
(* The health checks called directly *)

\* the threshold each named check uses
ThresholdOf(name) ==
    CASE name = "crash_rate" -> CrashRateThreshold
      [] name = "error_rate" -> ErrorRateThreshold
      [] name = "response_time" -> ResponseTimeThreshold
      [] name = "user_satisfaction" -> UserSatisfactionThreshold
      [] name = "memory_usage" -> MemoryUsageThreshold
      [] name = "cpu_usage" -> CpuUsageThreshold

\* readings around the threshold of the check, a failed and a raising query
CheckReadings(name) ==
    IF name \in KnownNames
    THEN {Value(ThresholdOf(name) + d) : d \in -MaxDelta..MaxDelta}
            \cup {QueryFailed, QueryRaises}
    ELSE {NoQuery}

InitChecks ==
    /\ strategy = IMMEDIATE
    /\ config \in {Config(Absent, Absent, AbsentList, Absent, Absent,
                          AbsentList, NoTriggers)}
    /\ pc = "checks"
    /\ results = <<>>
    /\ stage_i = 0
    /\ mon = MonIdle
    /\ now = 0
    /\ calls = <<>>
    /\ raised = {}
    /\ polls = <<>>
    /\ probe = NoProbe
    /\ first = NoFirst
    /\ report = NoReport
    /\ exit_code = Running

\* _run_health_check(check_name, version), called on its own
CallRunHealthCheck ==
    /\ pc = "checks"
    /\ ~probe.called
    /\ \E check_name \in KnownNames \cup {UnknownCheck} :
         \E q \in CheckReadings(check_name) :
           probe' = [called |-> TRUE, check_name |-> check_name, q |-> q,
                     metric |-> run_health_check(check_name, q)]
    /\ UNCHANGED <<first, strategy, config, pc, results, stage_i, mon, now,
                   calls, raised, polls, report, exit_code>>

NextChecks == CallRunHealthCheck

SpecChecks == InitChecks /\ [][NextChecks]_vars

----------------------------------------------------------------------------
(* C12 *)

\* C12: each named check classifies the queried value by its threshold and
\* direction: crash_rate, error_rate, response_time, memory_usage and
\* cpu_usage are healthy iff the value is less than 1.0, 2.0, 500.0, 512.0 and
\* 70.0, user_satisfaction iff the value is greater than 4.0; a value equal to
\* the threshold is unhealthy for every check.
C12_ClassifiedByThreshold ==
    probe.called /\ probe.q.kind = "value" =>
        LET v == probe.q.v
            m == probe.metric
        IN  /\ m.name = probe.check_name
            /\ m.current_value = v
            /\ m.is_healthy <=>
                   CASE probe.check_name = "crash_rate" -> v < 10
                     [] probe.check_name = "error_rate" -> v < 20
                     [] probe.check_name = "response_time" -> v < 5000
                     [] probe.check_name = "memory_usage" -> v < 5120
                     [] probe.check_name = "cpu_usage" -> v < 700
                     [] probe.check_name = "user_satisfaction" -> v > 40

----------------------------------------------------------------------------
(* C13 *)

\* C13: a rollback result ("rollback" or "blue_rollback") stands directly
\* after the Failed result of the stage that caused it (a monitoring stage for
\* "rollback", the traffic switch for "blue_rollback") and is the last result,
\* whether it is Success or Failed itself; in Canary and Gradual a Failed
\* monitoring result is immediately followed by the rollback: the rollback is
\* the next step and its result the next one appended.
C13_RollbackDirectlyAfterFailure ==
    /\ \A i \in 1..Len(results) :
           IsRollback(results[i]) =>
               /\ i > 1
               /\ i = Len(results)
               /\ results[i].status \in {SUCCESS, FAILED}
               /\ IsFailedStage(i - 1)
               /\ results[i].stage = "rollback" =>
                      /\ strategy \in {CANARY, GRADUAL}
                      /\ IsMonitoring(results[i - 1])
               /\ results[i].stage = "blue_rollback" =>
                      /\ strategy = BLUE_GREEN
                      /\ results[i - 1].stage = "traffic_switch"
    /\ \A i \in 1..Len(results) :
           IsMonitoring(results[i]) /\ results[i].status = FAILED =>
               IF i = Len(results) THEN pc = "rollback"
               ELSE results[i + 1].stage = "rollback"
    /\ pc = "rollback" =>
           /\ results # <<>>
           /\ IsMonitoring(Last(results))
           /\ Last(results).status = FAILED
    /\ pc = "blue_rollback" =>
           /\ results # <<>>
           /\ Last(results).stage = "traffic_switch"
           /\ Last(results).status = FAILED

\* a finished run whose rollback Failed itself, after a Failed monitoring
C13_Witness ==
    /\ pc = "exited"
    /\ Len(results) >= 3
    /\ Last(results).stage = "rollback"
    /\ Last(results).status = FAILED
    /\ IsMonitoring(results[Len(results) - 1])
    /\ results[Len(results) - 1].status = FAILED

----------------------------------------------------------------------------
(* C14 *)

\* one step leaves the result list as it is or appends one result to it; a
\* second call of execute_deployment starts a list of its own
AppendOnlyStep ==
    \/ results' = results
    \/ /\ Len(results') = Len(results) + 1
       /\ SubSeq(results', 1, Len(results)) = results
    \/ /\ pc = "returned"
       /\ pc' = "main"
       /\ results' = <<>>

\* C14: the result sequence of a run is append-only: it is empty when
\* execute_deployment is called, every step leaves it unchanged or appends one
\* result at its end, and the "stages" list of the generated report has the
\* same length and, position by position, the stage name and status of the
\* appended results.
C14_ResultsAppendOnly ==
    /\ [](pc = "main" => results = <<>>)
    /\ [][AppendOnlyStep]_vars
    /\ [](report.generated =>
             /\ Len(report.stages) = Len(results)
             /\ \A i \in 1..Len(results) :
                    /\ report.stages[i].name = results[i].stage
                    /\ report.stages[i].status = results[i].status)

\* a finished run whose report lists five stages, the last two not Success
C14_Witness ==
    /\ pc = "exited"
    /\ report.generated
    /\ Len(results) = 5
    /\ results[4].status = FAILED
    /\ results[5].stage = "rollback"

----------------------------------------------------------------------------
(* C15 *)

\* the rollout updates of the new version whose deploy stage ended Success
SuccessfulDeploys ==
    {k \in 1..Len(calls) :
        /\ calls[k].op = "update_rollout"
        /\ calls[k].version = Version
        /\ calls[k].at <= Len(results)
        /\ results[calls[k].at].status = SUCCESS}

\* C15: in a Canary or Gradual run, whatever the configuration (a configured
\* "stages" list and "canary_percentage" included), the rollout percentages of
\* the successful deploy stages are non-decreasing in the order of execution.
C15_PercentagesNonDecreasing ==
    strategy \in {CANARY, GRADUAL} =>
        \A k \in SuccessfulDeploys : \A l \in SuccessfulDeploys :
            k < l => calls[k].percentage <= calls[l].percentage

----------------------------------------------------------------------------
(* C16 *)

\* the durations of the first n results, added up
RECURSIVE DurationUpTo(_)
DurationUpTo(n) ==
    IF n = 0 THEN 0 ELSE DurationUpTo(n - 1) + results[n].duration_seconds

\* C16: the report's overall_success is true if and only if every recorded
\* result, a rollback result included, has status Success, and
\* total_duration_seconds is the sum of the stage durations; a run whose
\* rollback ended Success still reports overall_success false.
C16_OverallSuccessAndDuration ==
    report.generated =>
        /\ report.overall_success <=>
               {i \in 1..Len(results) : results[i].status # SUCCESS} = {}
        /\ report.total_duration_seconds = DurationUpTo(Len(results))
        /\ (\E i \in 1..Len(results) : IsRollback(results[i])) =>
               ~report.overall_success

\* a report of a run whose rollback ended Success
C16_Witness ==
    /\ report.generated
    /\ Len(results) >= 3
    /\ IsRollback(Last(results))
    /\ Last(results).status = SUCCESS
    /\ report.total_duration_seconds > 0
    /\ ~report.overall_success

----------------------------------------------------------------------------
(* C17 *)

\* execution or the generation of the report raised
MainRaised == \E e \in raised : e.op \in {"execute_deployment", "open"}

\* C17: the process exits with a non-zero status whenever the report's
\* overall_success is false, and also when execution or the generation of the
\* report raises; it exits with status zero only when the run completed with
\* overall_success true.
C17_ExitStatus ==
    IF pc = "exited"
    THEN /\ exit_code \in {0, 1}
         /\ report.generated /\ ~report.overall_success => exit_code # 0
         /\ MainRaised => exit_code # 0
         /\ exit_code = 0 =>
                /\ report.generated
                /\ report.overall_success
                /\ \A i \in 1..Len(results) : results[i].status = SUCCESS
         /\ exit_code = 0 <=>
                report.generated /\ report.overall_success /\ ~MainRaised
    ELSE exit_code = Running

\* a process that exited non-zero on a report with overall_success false
C17_Witness ==
    /\ pc = "exited"
    /\ report.generated
    /\ ~report.overall_success
    /\ exit_code = 1

----------------------------------------------------------------------------
(* C18 *)

\* C18: with an unsupported strategy value the error is raised before any
\* stage executes: no collaborator is called (no rollout update, track
\* deployment or promotion, no pass of health checks and so no metric query),
\* no DeploymentResult and no report are produced, and the process exits
\* non-zero.
C18_UnsupportedStrategyIsFatal ==
    strategy \notin DeploymentStrategy =>
        /\ pc \in {"main", "exited"}
        /\ results = <<>>
        /\ calls = <<>>
        /\ polls = <<>>
        /\ mon = MonIdle
        /\ ~report.generated
        /\ pc = "exited" =>
               /\ exit_code # 0
               /\ \E e \in raised : e.op = "execute_deployment"

\* the process has exited on an unsupported strategy whose config names
\* health checks
C18_Witness ==
    /\ strategy = UnsupportedStrategy
    /\ pc = "exited"
    /\ Get(config, "health_checks", <<>>) # <<>>
    /\ exit_code = 1

----------------------------------------------------------------------------
(* C19 *)

\* C19: when the configuration has no "health_checks" key, every pass of
\* health checks (each monitoring poll of Canary and Gradual, the green health
\* check of BlueGreen) evaluates the six named checks crash_rate, error_rate,
\* response_time, user_satisfaction, memory_usage and cpu_usage.
C19_DefaultIsAllSixChecks ==
    "health_checks" \notin config.keys =>
        \A k \in 1..Len(polls) :
            [j \in 1..Len(polls[k].metrics) |-> polls[k].metrics[j].name]
                = <<"crash_rate", "error_rate", "response_time",
                    "user_satisfaction", "memory_usage", "cpu_usage">>

----------------------------------------------------------------------------
(* C20 *)

\* two results agree in all but the duration
SameButDuration(r1, r2) ==
    /\ r1.stage = r2.stage
    /\ r1.status = r2.status
    /\ r1.metrics = r2.metrics
    /\ r1.error_message = r2.error_message

\* C20: a second call of execute_deployment with the same strategy, version
\* and config, in which the collaborators give the same successful responses
\* and the metric queries the same readings as in the first, produces a result
\* sequence of the same length with, position by position, the same stage
\* name, status, metrics and error message (durations aside): nothing of the
\* first call influences the second.
C20_SecondCallSameResults ==
    first.done =>
        /\ Len(results) <= Len(first.results)
        /\ \A i \in 1..Len(results) :
               SameButDuration(results[i], first.results[i])
        /\ Len(polls) <= Len(first.polls)
        /\ \A k \in 1..Len(polls) : polls[k] = first.polls[k]
        /\ pc \in {"returned", "exited"} =>
               /\ Len(results) = Len(first.results)
               /\ Len(polls) = Len(first.polls)

\* a second call has returned the five results of a Gradual run whose second
\* stage was rolled back
C20_Witness ==
    /\ first.done
    /\ pc = "exited"
    /\ strategy = GRADUAL
    /\ Len(results) = 5
    /\ results[5].stage = "rollback"
    /\ results[4].metrics # <<>>
    /\ now > 0

----------------------------------------------------------------------------
(* C23 *)

\* the result is the one of a _deploy_to_percentage call
IsDeploy(r) ==
    r.stage \in {"immediate", "canary", "full"}
                  \cup {GradualStageName(i) : i \in 0..Len(stages)}

\* the collaborator calls made for the result with index i, in order
CallsAt(i) ==
    LET MadeFor(c) == c.at = i
    IN  SelectSeq(calls, MadeFor)

\* C23: _deploy_to_percentage first updates the rollout, then waits for the
\* propagation, then verifies.  Its result is Success if and only if the
\* update reported success and the verification passed; otherwise it is Failed
\* with a non-empty error message: the update's error, "Deployment
\* verification failed", or the message of the exception a collaborator
\* raised.  When the update does not report success neither the propagation
\* wait nor the verification is performed.
C23_DeployToPercentage ==
    \A i \in 1..Len(results) :
        IsDeploy(results[i]) =>
            LET cs == CallsAt(i)
                r == results[i]
                wait == Get(config, "propagation_time", 300)
            IN  /\ Len(cs) \in {1, 2}
                /\ cs[1].op = "update_rollout"
                /\ cs[1].version = Version
                /\ Len(cs) = 2 <=> cs[1].out = "ok"
                /\ Len(cs) = 2 =>
                       /\ cs[2].op = "verify_deployment"
                       /\ cs[2].percentage = cs[1].percentage
                       /\ r.duration_seconds >= wait
                /\ Len(cs) = 1 => r.duration_seconds = 0
                /\ r.status = SUCCESS <=>
                       Len(cs) = 2 /\ cs[2].out = "ok"
                /\ r.status = SUCCESS => r.duration_seconds = 2 + wait + 1
                /\ r.status # SUCCESS =>
                       /\ r.status = FAILED
                       /\ r.error_message \notin {NoError, ""}
                       /\ cs[1].out = "error" =>
                              r.error_message = ApiError("update_rollout").msg
                       /\ cs[1].out = "raise" =>
                              r.error_message = Raises("update_rollout").msg
                       /\ Len(cs) = 2 /\ cs[2].out = "error" =>
                              r.error_message = "Deployment verification failed"
                       /\ Len(cs) = 2 /\ cs[2].out = "raise" =>
                              /\ r.error_message
                                     = Raises("verify_deployment").msg
                              /\ r.duration_seconds = 2 + wait

\* a third stage that Failed in the verification, after the update and the
\* propagation wait
C23_Witness ==
    /\ Len(results) >= 3
    /\ IsDeploy(results[3])
    /\ results[3].error_message = "Deployment verification failed"
    /\ results[3].duration_seconds > 60
    /\ Len(CallsAt(3)) = 2

----------------------------------------------------------------------------
(* C24 *)

----------------------------------------------------------------------------
(* C27 *)

\* C27: every DeploymentResult produced has status Success or Failed; Pending,
\* InProgress and RolledBack are never assigned, and a rollback stage that
\* succeeded is recorded as Success.
C27_StatusSuccessOrFailed ==
    /\ \A i \in 1..Len(results) :
           /\ results[i].status \in {"success", "failed"}
           /\ results[i].status \notin {PENDING, IN_PROGRESS, ROLLED_BACK}
           /\ results[i].status \in DeploymentStatus
    /\ \A i \in 1..Len(results) :
           /\ results[i].stage = "rollback" /\ CallsAt(i)[1].out = "ok" =>
                  results[i].status = SUCCESS
           /\ results[i].stage = "blue_rollback"
                   /\ results[i].error_message = NoError =>
                  results[i].status = SUCCESS
    /\ report.generated =>
           \A i \in 1..Len(report.stages) :
               report.stages[i].status \in {"success", "failed"}

\* a finished BlueGreen run whose blue rollback succeeded
C27_Witness ==
    /\ pc = "exited"
    /\ Len(results) = 4
    /\ results[4].stage = "blue_rollback"
    /\ results[4].error_message = NoError

----------------------------------------------------------------------------
(* C29 *)

\* C29: for every DeploymentResult produced by any stage, error_message is
\* absent (None) if and only if the status is Success; every Failed result
\* carries an error message.
C29_ErrorMessageIffNotSuccess ==
    \A i \in 1..Len(results) :
        /\ results[i].error_message = NoError <=> results[i].status = SUCCESS
        /\ results[i].status = FAILED => results[i].error_message # NoError

\* a monitoring stage failed by the trigger, followed by a rollback that Failed
C29_Witness ==
    /\ Len(results) >= 3
    /\ IsMonitoring(results[Len(results) - 1])
    /\ results[Len(results) - 1].error_message
           = "Rollback triggered due to unhealthy metrics"
    /\ Last(results).stage = "rollback"
    /\ Last(results).status = FAILED

----------------------------------------------------------------------------
(* C30 *)

\* C30: a run reported with overall_success true has deployed something: the
\* result sequence has at least one Success deploy stage; in particular a
\* Gradual run with an empty configured "stages" list is not reported as a
\* success with exit status zero.
C30_SuccessMeansDeployed ==
    /\ report.generated /\ report.overall_success =>
           \E i \in 1..Len(results) :
               /\ results[i].status = SUCCESS
               /\ IsDeploy(results[i]) \/ results[i].stage = "green_deployment"
    /\ pc = "exited" /\ exit_code = 0 => results # <<>>

----------------------------------------------------------------------------
(* C26 *)

\* the config without the rollback thresholds of metrics that are not critical
WithoutNonCritical(cfg) ==
    [cfg EXCEPT !.rollback_triggers.keys = @ \ {"response_time_threshold"}]

\* the config with a rollback threshold t for response_time
WithResponseTimeThreshold(cfg, t) ==
    [cfg EXCEPT !.rollback_triggers.keys = @ \cup {"response_time_threshold"},
                !.rollback_triggers.response_time_threshold = t]

\* C26: a rollback threshold given for a metric outside the critical set
\* {crash_rate, error_rate}, such as response_time_threshold, is ignored: for
\* every list of unhealthy metrics _should_trigger_rollback gives the same
\* result with and without such a key in the config.
C26_NonCriticalThresholdIgnored ==
    probe.called =>
        /\ probe.result
               = should_trigger_rollback(probe.unhealthy_metrics,
                                         WithoutNonCritical(config))
        /\ \A t \in ResponseTimeRollbackThresholds :
               probe.result
                   = should_trigger_rollback(probe.unhealthy_metrics,
                         WithResponseTimeThreshold(config, t))

\* the policy answered false on a response time above the rollback threshold
\* the config gives for it
C26_Witness ==
    /\ probe.called
    /\ "response_time_threshold" \in config.rollback_triggers.keys
    /\ config.rollback_triggers.response_time_threshold = 5500
    /\ Len(probe.unhealthy_metrics) = 1
    /\ probe.unhealthy_metrics[1].name = "response_time"
    /\ probe.unhealthy_metrics[1].current_value = 6000
    /\ ~probe.result

----------------------------------------------------------------------------
(* C28 *)

\* C28: every HealthMetric produced by _run_health_check is consistent in
\* itself: is_healthy is the outcome of comparing current_value with threshold
\* in the stated direction (less_than: value < threshold, greater_than:
\* value > threshold), for known checks, unknown checks and the fallback
\* metrics built when the query raises.
C28_MetricConsistent ==
    probe.called =>
        LET m == probe.metric
        IN  /\ m.comparison \in {"less_than", "greater_than"}
            /\ m.is_healthy <=>
                   IF m.comparison = "less_than"
                   THEN m.current_value < m.threshold
                   ELSE m.current_value > m.threshold

----------------------------------------------------------------------------
(* Canary and Gradual runs over a wider range of rollback triggers *)

\* values of rollback_triggers.max_unhealthy_metrics
MonitoringMaxUnhealthyChoices == {0, 2}

MonitoringTriggerDicts ==
    {[keys |-> c[1] \cup m[1], crash_rate_threshold |-> c[2],
      error_rate_threshold |-> 0, max_unhealthy_metrics |-> m[2]] :
        c \in Optional("crash_rate_threshold", CrashRateRollbackThresholds),
        m \in Optional("max_unhealthy_metrics", MonitoringMaxUnhealthyChoices)}

MonitoringConfigsFor(s) ==
    CASE s = CANARY ->
           {Config(Absent, md, AbsentList, Absent, ci, hc, rt) :
               md \in Present("monitoring_duration", MonitoringDurations),
               ci \in Present("check_interval", CanaryCheckIntervals),
               hc \in Present("health_checks", HealthCheckLists),
               rt \in MonitoringTriggerDicts}
      [] s = GRADUAL ->
           {Config(Absent, Absent, st, Absent, ci, hc, rt) :
               st \in Present("stages", StageLists),
               ci \in Present("check_interval", GradualCheckIntervals),
               hc \in Present("health_checks",
                              {<<>>, <<"crash_rate">>,
                               <<"crash_rate", "user_satisfaction">>}),
               rt \in {t \in MonitoringTriggerDicts :
                          "crash_rate_threshold" \notin t.keys}}

InitMonitoring ==
    /\ strategy \in {CANARY, GRADUAL}
    /\ config \in MonitoringConfigsFor(strategy)
    /\ pc = "main"
    /\ results = <<>>
    /\ stage_i = 0
    /\ mon = MonIdle
    /\ now = 0
    /\ calls = <<>>
    /\ raised = {}
    /\ polls = <<>>
    /\ probe = NoProbe
    /\ first = NoFirst
    /\ report = NoReport
    /\ exit_code = Running

NextMonitoring ==
    \/ ExecuteDeployment
    \/ CanaryDeploy
    \/ CanaryFull
    \/ GradualDeploy
    \/ GradualEnd
    \/ MonitorPoll
    \/ MonitorPollRaises
    \/ MonitorComplete
    \/ Rollback
    \/ ReportAndExit

SpecMonitoring == InitMonitoring /\ [][NextMonitoring]_vars

\* the process runs on its own thread and always takes its next step
SpecMonitoringFair == SpecMonitoring /\ WF_vars(NextMonitoring)

----------------------------------------------------------------------------
(* C21 *)

TriggerMessage == "Rollback triggered due to unhealthy metrics"

\* the last poll made for the result with index i
LastPollOf(i) == CHOOSE k \in PollsOf(i) : \A l \in PollsOf(i) : l <= k

\* the monitoring stage returned Failed at poll k: poll k is the last poll of
\* its stage and the stage's result is the Failed result of the trigger
FailedAtPoll(k) ==
    LET i == polls[k].at
    IN  /\ i <= Len(results)
        /\ results[i].status = FAILED
        /\ results[i].error_message = TriggerMessage
        /\ k = LastPollOf(i)

----------------------------------------------------------------------------
(* C22 *)

\* C22: when the monitoring window elapses without the trigger firing the
\* result is Success and its metrics are those of the last poll performed
\* (none when no poll was made); when the trigger fires the Failed result's
\* metrics are those of the poll that fired it; the metrics of earlier polls
\* do not appear in the result.
C22_MetricsOfLastPoll ==
    \A i \in 1..Len(results) :
        IsMonitoring(results[i]) =>
            /\ results[i].status = SUCCESS =>
                   /\ \A k \in PollsOf(i) :
                          ~PollTriggersRollback(polls[k].metrics, config)
                   /\ results[i].metrics
                          = IF PollsOf(i) = {} THEN <<>>
                            ELSE polls[LastPollOf(i)].metrics
            /\ results[i].status = FAILED
                    /\ results[i].error_message = TriggerMessage =>
                   /\ PollsOf(i) # {}
                   /\ results[i].metrics = polls[LastPollOf(i)].metrics
                   /\ PollTriggersRollback(results[i].metrics, config)
            /\ results[i].status = FAILED
                    /\ results[i].error_message # TriggerMessage =>
                   results[i].metrics = <<>>

\* a monitoring stage that ended Success after two polls with different
\* metrics
C22_Witness ==
    \E i \in 1..Len(results) :
        /\ IsMonitoring(results[i])
        /\ results[i].status = SUCCESS
        /\ Cardinality(PollsOf(i)) = 2
        /\ \E k \in PollsOf(i) : polls[k].metrics # results[i].metrics

----------------------------------------------------------------------------
(* C25 *)

\* the polls the running monitoring loop has made fit its window: each but
\* the first came one check interval after the one before, inside the window
PollsFitWindow ==
    pc = "monitor" /\ mon.metrics_history # <<>> =>
        (Len(mon.metrics_history) - 1) * check_interval
            < mon.end_time - mon.start_time

\* C25: every run of execute_deployment terminates: with a finite stage list,
\* finite monitoring durations and a positive check interval, the clock
\* advancing by the sleep of each poll, every monitoring loop makes finitely
\* many polls and stops once its duration has elapsed or the trigger fires,
\* and execute_deployment eventually returns its result sequence.
C25_RunTerminates ==
    /\ []PollsFitWindow
    /\ (pc = "monitor") ~> (pc # "monitor")
    /\ <>Done
    /\ <>(pc = "exited")

\* a Gradual run of two stages has returned after both monitoring windows
\* elapsed
C25_Witness ==
    /\ pc = "returned"
    /\ strategy = GRADUAL
    /\ Len(stages) = 2
    /\ Len(results) = 4
    /\ Len(polls) = 2
    /\ now >= 2 * SecondsPerHour

====
